---- MODULE Spec2Model ----
(***************************************************************************)
(* A model of the kilo-style terminal text editor of src/main.rs: the row  *)
(* buffer, the viewport scroll, the escape-sequence key decoder, the       *)
(* key dispatcher and the process life cycle (raw mode, cleanup, die).     *)
(*                                                                         *)
(* Text is a sequence of byte values.  Rust indices are 0-based, TLA+      *)
(* sequences 1-based: rows[y] of the source is e.rows[y + 1] here.         *)
(* A Rust panic (index out of range, String::insert past the end,          *)
(* Option::unwrap on None) is recorded in the field `panicked`; the        *)
(* process then ends without running any cleanup.                          *)
(***************************************************************************)
EXTENDS Integers, Sequences, FiniteSets, TLC

VARIABLES
    editor,        \* the Editor struct (src/main.rs:137-152)
    status,        \* position of the process: Start, Running, Cleanup, Exited, Panicked, StackOverflow
    exit_code,     \* status passed to process::exit, -1 while none
    die_depth,     \* number of nested die() frames on the stack
    terminal,      \* attributes of the terminal device: "original" or "raw"
    restores,      \* number of tcsetattr calls that restored the original attributes
    io_error,      \* history: a terminal read, write or flush has failed
    stdin,         \* the bytes (and read timeouts) waiting on standard input
    last_input,    \* history: stdin as it was when ReadKey last read a key
    last_key,      \* history: the key ReadKey last decoded, -1 before any
    consecutive_q, \* history: number of Ctrl-Q presses since the last other key
    mutated,       \* history: a key press changed the rows since the last load or save
    call           \* history: the operation applied on its own, its arguments and the editor before it

vars == <<editor, status, exit_code, die_depth, terminal, restores, io_error,
          stdin, last_input, last_key, consecutive_q, mutated, call>>

(***************************************************************************)
(* Bounds of the model.                                                    *)
(***************************************************************************)
MaxRows == 2
MaxChars == 3
MaxDirty == 3
MaxStack == 2
MaxInput == 3

(***************************************************************************)
(* Constants of the program.                                               *)
(***************************************************************************)
KILO_TAB_STOP == 8
KILO_QUIT_TIMES == 3

CARRIAGE_RETURN_KEY == 13
BACKSPACE_KEY == 127
ARROW_LEFT_KEY == 1000
ARROW_RIGHT_KEY == 1001
ARROW_UP_KEY == 1002
ARROW_DOWN_KEY == 1003
PAGE_UP_KEY == 1004
PAGE_DOWN_KEY == 1005
HOME_KEY == 1006
END_KEY == 1007
DELETE_KEY == 1008
ESCAPE_KEY == 27

\* Byte values of the characters the source names.
TAB == 9
LF == 10
CR == 13
SPACE == 32
EOF == 0 - 1      \* a read that returned no byte (ErrorKind::UnexpectedEof)

Chr(s) ==
    CASE s = "0" -> 48 [] s = "1" -> 49 [] s = "2" -> 50 [] s = "3" -> 51
      [] s = "4" -> 52 [] s = "5" -> 53 [] s = "6" -> 54 [] s = "7" -> 55
      [] s = "8" -> 56 [] s = "9" -> 57
      [] s = "A" -> 65 [] s = "B" -> 66 [] s = "C" -> 67 [] s = "D" -> 68
      [] s = "F" -> 70 [] s = "H" -> 72 [] s = "O" -> 79 [] s = "[" -> 91
      [] s = "a" -> 97 [] s = "h" -> 104 [] s = "l" -> 108 [] s = "q" -> 113
      [] s = "s" -> 115 [] s = "x" -> 120 [] s = "~" -> 126

\* (k as u8) & 0x1f
ctrl_char(k) == k % 32

CTRL_Q == ctrl_char(Chr("q"))
CTRL_S == ctrl_char(Chr("s"))
CTRL_H == ctrl_char(Chr("h"))
CTRL_L == ctrl_char(Chr("l"))

\* The characters the source names, as bytes.
CH_BRACKET == Chr("[")
CH_O == Chr("O")
CH_TILDE == Chr("~")
CH_x == Chr("x")
CH_a == Chr("a")
CH_A == Chr("A")
CH_B == Chr("B")
CH_C == Chr("C")
CH_D == Chr("D")
CH_F == Chr("F")
CH_H == Chr("H")
CH_0 == Chr("0")
CH_1 == Chr("1")
CH_2 == Chr("2")
CH_3 == Chr("3")
CH_4 == Chr("4")
CH_5 == Chr("5")
CH_6 == Chr("6")
CH_7 == Chr("7")
CH_8 == Chr("8")
CH_9 == Chr("9")

Min(a, b) == IF a < b THEN a ELSE b

\* No operation is applied on its own: the process runs main.
NoCall == [op |-> "None"]

(***************************************************************************)
(* EditorRow                                                               *)
(***************************************************************************)
RECURSIVE render_loop(_, _, _, _)
render_loop(chars, i, render, index) ==
    IF i > Len(chars) THEN render
    ELSE IF chars[i] = TAB
         THEN LET pad == KILO_TAB_STOP - (index % KILO_TAB_STOP)
              IN render_loop(chars, i + 1,
                             render \o [k \in 1..pad |-> SPACE], index + pad)
         ELSE render_loop(chars, i + 1, Append(render, chars[i]), index + 1)

update_render(chars) == render_loop(chars, 1, <<>>, 0)

EditorRow_new(chars) == [chars |-> chars, render |-> update_render(chars)]

EditorRow_len(row) == Len(row.chars)

RECURSIVE render_x_loop(_, _, _, _)
render_x_loop(chars, i, n, render_cursor_x) ==
    IF i > n THEN render_cursor_x
    ELSE LET r == IF chars[i] = TAB
                  THEN render_cursor_x
                       + (KILO_TAB_STOP - 1 - (render_cursor_x % KILO_TAB_STOP))
                  ELSE render_cursor_x
         IN render_x_loop(chars, i + 1, n, r + 1)

\* A conversion that takes the column of the chars for the column of the render.
cursor_x_as_render_cursor_x(row, cursor_x) == Min(cursor_x, Len(row.chars))

cursor_x_to_render_cursor_x(row, cursor_x) ==
    render_x_loop(row.chars, 1, Min(cursor_x, Len(row.chars)), 0)

\* String::insert, String::remove and String::split_off panic on these offsets.
insert_char_panics(row, at) == at > Len(row.chars)
delete_char_panics(row, at) == at >= Len(row.chars)
split_off_panics(row, at) == at > Len(row.chars)

\* An insert_char that puts the character one place further, where there is one.
EditorRow_insert_char_after(row, at, c) ==
    LET to == Min(at + 1, Len(row.chars))
        chars == SubSeq(row.chars, 1, to) \o <<c>>
                 \o SubSeq(row.chars, to + 1, Len(row.chars))
    IN [chars |-> chars, render |-> update_render(chars)]

EditorRow_insert_char(row, at, c) ==
    LET chars == SubSeq(row.chars, 1, at) \o <<c>>
                 \o SubSeq(row.chars, at + 1, Len(row.chars))
    IN [chars |-> chars, render |-> update_render(chars)]

\* A delete_char that leaves the render as it was.
EditorRow_delete_char_stale(row, at) ==
    [chars |-> SubSeq(row.chars, 1, at) \o SubSeq(row.chars, at + 2, Len(row.chars)),
     render |-> row.render]

EditorRow_delete_char(row, at) ==
    LET chars == SubSeq(row.chars, 1, at)
                 \o SubSeq(row.chars, at + 2, Len(row.chars))
    IN [chars |-> chars, render |-> update_render(chars)]

EditorRow_append_string(row, s) ==
    LET chars == row.chars \o s
    IN [chars |-> chars, render |-> update_render(chars)]

\* split_off leaves [0, at) in the row and returns the suffix.
EditorRow_split_off(row, at) ==
    LET chars == SubSeq(row.chars, 1, at)
    IN [chars |-> chars, render |-> update_render(chars)]

\* A split that loses the character at the split offset.
split_off_suffix_short(row, at) == SubSeq(row.chars, at + 2, Len(row.chars))

split_off_suffix(row, at) == SubSeq(row.chars, at + 1, Len(row.chars))

(***************************************************************************)
(* Editor                                                                  *)
(***************************************************************************)
Editor_new(num_rows, num_columns) ==
    [cursor_x |-> 0, cursor_y |-> 0, render_cursor_x |-> 0,
     row_offset |-> 0, column_offset |-> 0,
     screen_num_rows |-> num_rows, screen_num_columns |-> num_columns,
     rows |-> <<>>, dirty |-> 0, quit_times |-> KILO_QUIT_TIMES,
     filename |-> "None", status_message |-> "None",
     original_terminal |-> "None", panicked |-> FALSE]

get_num_rows(e) == Len(e.rows)

Panic(e) == [e EXCEPT !.panicked = TRUE]

set_original_terminal(e, original_terminal) ==
    [e EXCEPT !.original_terminal = original_terminal]

editor_set_status_message(e, message) == [e EXCEPT !.status_message = message]

editor_insert_row(e, at, row) ==
    IF at > get_num_rows(e) THEN e
    ELSE [e EXCEPT !.rows = SubSeq(e.rows, 1, at) \o <<EditorRow_new(row)>>
                            \o SubSeq(e.rows, at + 1, Len(e.rows)),
                   !.dirty = @ + 1]

\* A row removal that does not count as a modification.
editor_delete_row_not_dirty(e, at) ==
    IF at >= Len(e.rows) THEN e
    ELSE [e EXCEPT !.rows = SubSeq(e.rows, 1, at)
                            \o SubSeq(e.rows, at + 2, Len(e.rows))]

\* The editor after editor_delete_row(at); the row it returns is
\* e.rows[at + 1] when at is in range and None otherwise.
editor_delete_row(e, at) ==
    IF at >= get_num_rows(e) THEN e
    ELSE [e EXCEPT !.dirty = @ + 1,
                   !.rows = SubSeq(e.rows, 1, at)
                            \o SubSeq(e.rows, at + 2, Len(e.rows))]

editor_insert_char(e, c) ==
    LET e1 == IF e.cursor_y = get_num_rows(e)
              THEN editor_insert_row(e, get_num_rows(e), <<>>)
              ELSE e
    IN IF e1.cursor_y >= get_num_rows(e1) THEN Panic(e1)
       ELSE IF insert_char_panics(e1.rows[e1.cursor_y + 1], e1.cursor_x)
            THEN Panic(e1)
            ELSE [e1 EXCEPT !.rows[e1.cursor_y + 1] =
                                EditorRow_insert_char(@, e1.cursor_x, c),
                            !.cursor_x = @ + 1,
                            !.dirty = @ + 1]

editor_insert_newline(e) ==
    LET e1 ==
        IF e.cursor_x = 0
        THEN editor_insert_row(e, e.cursor_y, <<>>)
        ELSE IF e.cursor_y >= get_num_rows(e) THEN Panic(e)
        ELSE IF split_off_panics(e.rows[e.cursor_y + 1], e.cursor_x) THEN Panic(e)
        ELSE LET row == e.rows[e.cursor_y + 1]
                 new_row == split_off_suffix(row, e.cursor_x)
                 e2 == [e EXCEPT !.rows[e.cursor_y + 1] =
                                     EditorRow_split_off(row, e.cursor_x)]
                 e3 == editor_insert_row(e2, e.cursor_y + 1, new_row)
             IN [e3 EXCEPT !.dirty = @ + 1]
    IN IF e1.panicked THEN e1
       ELSE [e1 EXCEPT !.cursor_y = @ + 1, !.cursor_x = 0]

\* A deletion that lacks the return at the origin: the row before row 0 is read.
editor_delete_char_no_origin_guard(e) ==
    IF e.cursor_y = e.screen_num_rows THEN e
    ELSE IF e.cursor_x > 0
    THEN IF e.cursor_y >= get_num_rows(e) THEN Panic(e)
         ELSE IF delete_char_panics(e.rows[e.cursor_y + 1], e.cursor_x - 1)
              THEN Panic(e)
              ELSE [e EXCEPT !.rows[e.cursor_y + 1] =
                                 EditorRow_delete_char(@, e.cursor_x - 1),
                             !.cursor_x = @ - 1,
                             !.dirty = @ + 1]
    ELSE IF e.cursor_y = 0 \/ e.cursor_y - 1 >= get_num_rows(e) THEN Panic(e)
         ELSE LET e1 == [e EXCEPT !.cursor_x = EditorRow_len(e.rows[e.cursor_y])]
                  e2 == editor_delete_row(e1, e1.cursor_y)
                  e3 == IF e.cursor_y < get_num_rows(e)
                        THEN [e2 EXCEPT !.rows[e.cursor_y] =
                                 EditorRow_append_string(@, e.rows[e.cursor_y + 1].chars)]
                        ELSE e2
              IN [e3 EXCEPT !.cursor_y = @ - 1]

editor_delete_char(e) ==
    IF e.cursor_y = e.screen_num_rows THEN e
    ELSE IF e.cursor_x = 0 /\ e.cursor_y = 0 THEN e
    ELSE IF e.cursor_x > 0
    THEN IF e.cursor_y >= get_num_rows(e) THEN Panic(e)
         ELSE IF delete_char_panics(e.rows[e.cursor_y + 1], e.cursor_x - 1)
              THEN Panic(e)
              ELSE [e EXCEPT !.rows[e.cursor_y + 1] =
                                 EditorRow_delete_char(@, e.cursor_x - 1),
                             !.cursor_x = @ - 1,
                             !.dirty = @ + 1]
    ELSE IF e.cursor_y - 1 >= get_num_rows(e) THEN Panic(e)
         ELSE LET e1 == [e EXCEPT !.cursor_x = EditorRow_len(e.rows[e.cursor_y])]
                  e2 == editor_delete_row(e1, e1.cursor_y)
                  e3 == IF e.cursor_y < get_num_rows(e)
                        THEN [e2 EXCEPT !.rows[e.cursor_y] =
                                 EditorRow_append_string(@, e.rows[e.cursor_y + 1].chars)]
                        ELSE e2
              IN [e3 EXCEPT !.cursor_y = @ - 1]

editor_move_cursor(e, key) ==
    LET on_row == e.cursor_y < get_num_rows(e)
        e1 ==
          CASE key = ARROW_LEFT_KEY ->
                 IF e.cursor_x # 0 THEN [e EXCEPT !.cursor_x = @ - 1]
                 ELSE IF e.cursor_y > 0
                      THEN IF e.cursor_y - 1 >= get_num_rows(e) THEN Panic(e)
                           ELSE [e EXCEPT !.cursor_y = @ - 1,
                                          !.cursor_x = Len(e.rows[e.cursor_y].render)]
                      ELSE e
            [] key = ARROW_RIGHT_KEY ->
                 IF on_row /\ e.cursor_x < Len(e.rows[e.cursor_y + 1].render)
                 THEN [e EXCEPT !.cursor_x = @ + 1]
                 ELSE IF on_row /\ e.cursor_x = Len(e.rows[e.cursor_y + 1].render)
                      THEN [e EXCEPT !.cursor_y = @ + 1, !.cursor_x = 0]
                      ELSE e
            [] key = ARROW_UP_KEY ->
                 [e EXCEPT !.cursor_y = IF @ > 0 THEN @ - 1 ELSE 0]
            [] key = ARROW_DOWN_KEY ->
                 IF e.cursor_y < get_num_rows(e)
                 THEN [e EXCEPT !.cursor_y = @ + 1]
                 ELSE e
            [] OTHER -> e
        \* Snap to end of line
        current_row_len == IF e1.cursor_y < get_num_rows(e1)
                           THEN Len(e1.rows[e1.cursor_y + 1].render)
                           ELSE 0
    IN IF e1.panicked THEN e1
       ELSE IF e1.cursor_x > current_row_len
            THEN [e1 EXCEPT !.cursor_x = current_row_len]
            ELSE e1

\* A scroll that puts the cursor on the first line of the window whenever it
\* was outside of it.
editor_scroll_to_cursor(e) ==
    LET rx == IF e.cursor_y < get_num_rows(e)
              THEN cursor_x_to_render_cursor_x(e.rows[e.cursor_y + 1], e.cursor_x)
              ELSE 0
        ro == IF e.cursor_y < e.row_offset
                 \/ e.cursor_y >= e.row_offset + e.screen_num_rows
              THEN e.cursor_y ELSE e.row_offset
        co == IF rx < e.column_offset
                 \/ rx >= e.column_offset + e.screen_num_columns
              THEN rx ELSE e.column_offset
    IN [e EXCEPT !.render_cursor_x = rx, !.row_offset = ro, !.column_offset = co]

editor_scroll(e) ==
    LET rx == IF e.cursor_y < get_num_rows(e)
              THEN cursor_x_to_render_cursor_x(e.rows[e.cursor_y + 1], e.cursor_x)
              ELSE 0
        ro1 == IF e.cursor_y < e.row_offset THEN e.cursor_y ELSE e.row_offset
        ro2 == IF e.cursor_y >= ro1 + e.screen_num_rows
               THEN e.cursor_y - e.screen_num_rows + 1
               ELSE ro1
        co1 == IF rx < e.column_offset THEN rx ELSE e.column_offset
        co2 == IF rx >= co1 + e.screen_num_columns
               THEN rx - e.screen_num_columns + 1
               ELSE co1
    IN [e EXCEPT !.render_cursor_x = rx, !.row_offset = ro2, !.column_offset = co2]

\* The frame itself is written to the terminal; the state it leaves is the scroll's.
editor_refresh_screen(e) == editor_scroll(e)

(***************************************************************************)
(* File I/O                                                                *)
(***************************************************************************)
RECURSIVE rows_to_string_loop(_, _, _)
rows_to_string_loop(rows, idx, buf) ==
    IF idx >= Len(rows) THEN buf
    ELSE LET b1 == buf \o rows[idx + 1].chars
             b2 == IF idx < Len(rows) - 1 THEN Append(b1, LF) ELSE b1
         IN rows_to_string_loop(rows, idx + 1, b2)

editor_rows_to_string(e) == rows_to_string_loop(e.rows, 0, <<>>)

\* str::split('\n'): the pieces between the line feeds, one more than there are line feeds.
RECURSIVE split_lines(_)
split_lines(text) ==
    IF \A i \in 1..Len(text) : text[i] # LF THEN <<text>>
    ELSE LET i == CHOOSE k \in 1..Len(text) :
                      text[k] = LF /\ \A j \in 1..(k - 1) : text[j] # LF
         IN <<SubSeq(text, 1, i - 1)>> \o split_lines(SubSeq(text, i + 1, Len(text)))

RECURSIVE strip_line_end(_, _)
strip_line_end(line, length) ==
    IF length > 0 /\ (line[length] = LF \/ line[length] = CR)
    THEN strip_line_end(line, length - 1)
    ELSE SubSeq(line, 1, length)

RECURSIVE open_insert_loop(_, _, _)
open_insert_loop(e, lines, i) ==
    IF i > Len(lines) THEN e
    ELSE open_insert_loop(
             editor_insert_row(e, get_num_rows(e),
                               strip_line_end(lines[i], Len(lines[i]))),
             lines, i + 1)

\* editor_open once read_to_string has returned file_contents (the empty
\* string when the file does not exist).
editor_open(e, file_contents) ==
    LET e1 == open_insert_loop(e, split_lines(file_contents), 1)
    IN [e1 EXCEPT !.filename = "Some", !.dirty = 0]

\* fs is what the file system answers: "ok", "open_error" or "write_error".
editor_save(e, fs) ==
    LET e1 == IF e.filename = "None"
              THEN editor_set_status_message(e, "No file open to save")
              ELSE e
    IN IF e1.filename = "None" THEN Panic(e1)
       ELSE IF fs = "open_error"
            THEN editor_set_status_message(e1, "Error opening file")
       ELSE IF fs = "write_error"
            THEN editor_set_status_message(e1, "Error saving file")
       ELSE [editor_set_status_message(e1, "bytes written to disk")
                EXCEPT !.dirty = 0]

(***************************************************************************)
(* Input: editor_read_key over the stream of read results.  An item of    *)
(* the stream is a byte, or EOF for a read that timed out; reading past    *)
(* the end of the stream times out as well.                                *)
(***************************************************************************)
read_exact(stream) ==
    IF stream = <<>> THEN [byte |-> EOF, rest |-> <<>>]
    ELSE [byte |-> Head(stream), rest |-> Tail(stream)]

\* The first read is repeated until it returns a byte.
RECURSIVE skip_timeouts(_)
skip_timeouts(stream) ==
    IF stream # <<>> /\ Head(stream) = EOF THEN skip_timeouts(Tail(stream))
    ELSE stream

has_key(stream) == skip_timeouts(stream) # <<>>

\* A decoder that maps ESC [ 7 ~ to End.
tilde_key_7_is_end(digit) ==
    CASE digit = CH_1 -> HOME_KEY
      [] digit = CH_3 -> DELETE_KEY
      [] digit = CH_4 -> END_KEY
      [] digit = CH_5 -> PAGE_UP_KEY
      [] digit = CH_6 -> PAGE_DOWN_KEY
      [] digit = CH_7 -> END_KEY
      [] digit = CH_8 -> END_KEY
      [] OTHER -> ESCAPE_KEY

\* ESC [ digit ~
tilde_key(digit) ==
    CASE digit = CH_1 -> HOME_KEY
      [] digit = CH_3 -> DELETE_KEY
      [] digit = CH_4 -> END_KEY
      [] digit = CH_5 -> PAGE_UP_KEY
      [] digit = CH_6 -> PAGE_DOWN_KEY
      [] digit = CH_7 -> HOME_KEY
      [] digit = CH_8 -> END_KEY
      [] OTHER -> ESCAPE_KEY

\* ESC [ letter
csi_key(byte) ==
    CASE byte = CH_A -> ARROW_UP_KEY
      [] byte = CH_B -> ARROW_DOWN_KEY
      [] byte = CH_C -> ARROW_RIGHT_KEY
      [] byte = CH_D -> ARROW_LEFT_KEY
      [] byte = CH_H -> HOME_KEY
      [] byte = CH_F -> END_KEY
      [] OTHER -> ESCAPE_KEY

\* A decoder whose SS3 arm uses the CSI letters.
ss3_key_as_csi(byte) == csi_key(byte)

\* ESC O letter
ss3_key(byte) ==
    CASE byte = CH_H -> HOME_KEY
      [] byte = CH_F -> END_KEY
      [] OTHER -> ESCAPE_KEY

\* The key returned and the stream left behind; defined when has_key(stream).
editor_read_key(stream) ==
    LET s0 == skip_timeouts(stream)
        buf == Head(s0)
        seq0 == read_exact(Tail(s0))
        seq1 == read_exact(seq0.rest)
        seq2 == read_exact(seq1.rest)
    IN IF buf # ESCAPE_KEY THEN [key |-> buf, rest |-> Tail(s0)]
       ELSE IF seq0.byte = EOF THEN [key |-> ESCAPE_KEY, rest |-> seq0.rest]
       ELSE IF seq1.byte = EOF THEN [key |-> ESCAPE_KEY, rest |-> seq1.rest]
       ELSE IF seq0.byte = CH_BRACKET
            THEN IF seq1.byte > CH_0 /\ seq1.byte <= CH_9
                 THEN IF seq2.byte = EOF
                      THEN [key |-> ESCAPE_KEY, rest |-> seq2.rest]
                      ELSE IF seq2.byte = CH_TILDE
                           THEN [key |-> tilde_key(seq1.byte), rest |-> seq2.rest]
                           ELSE [key |-> ESCAPE_KEY, rest |-> seq2.rest]
                 ELSE [key |-> csi_key(seq1.byte), rest |-> seq1.rest]
       ELSE IF seq0.byte = CH_O
            THEN [key |-> ss3_key(seq1.byte), rest |-> seq1.rest]
       ELSE [key |-> ESCAPE_KEY, rest |-> seq1.rest]

(***************************************************************************)
(* editor_process_keypress                                                 *)
(***************************************************************************)
RECURSIVE move_cursor_times(_, _, _)
move_cursor_times(e, key, times) ==
    IF times = 0 \/ e.panicked THEN e
    ELSE move_cursor_times(editor_move_cursor(e, key), key, times - 1)

\* A PageDown that does not cap cursor_y at the number of rows.
page_key_uncapped(e, key) ==
    LET e1 == IF key = PAGE_UP_KEY
              THEN [e EXCEPT !.cursor_y = e.row_offset]
              ELSE [e EXCEPT !.cursor_y = e.row_offset + e.screen_num_rows - 1]
    IN move_cursor_times(e1, IF key = PAGE_UP_KEY THEN ARROW_UP_KEY
                                                  ELSE ARROW_DOWN_KEY,
                         e.screen_num_rows)

page_key(e, key) ==
    LET e1 == IF key = PAGE_UP_KEY
              THEN [e EXCEPT !.cursor_y = e.row_offset]
              ELSE LET y == e.row_offset + e.screen_num_rows - 1
                   IN [e EXCEPT !.cursor_y = IF y > get_num_rows(e)
                                             THEN get_num_rows(e) ELSE y]
    IN move_cursor_times(e1, IF key = PAGE_UP_KEY THEN ARROW_UP_KEY
                                                  ELSE ARROW_DOWN_KEY,
                         e.screen_num_rows)

end_key(e) ==
    IF e.cursor_y < get_num_rows(e)
    THEN [e EXCEPT !.cursor_x = EditorRow_len(e.rows[e.cursor_y + 1])]
    ELSE e

delete_key(e) ==
    LET e1 == editor_move_cursor(e, ARROW_RIGHT_KEY)
    IN IF e1.panicked THEN e1 ELSE editor_delete_char(e1)

\* The last arm of the match: which keys are inserted as characters.
is_literal_key(key) == (key < 128 /\ (key % 256) < 128) \/ key = TAB

\* A quit that is refused one time less.
quit_refused_once_less(e) == e.dirty # 0 /\ e.quit_times > 1

\* The Ctrl-Q arm: the quit is refused and the counter decremented.
quit_refused(e) == e.dirty # 0 /\ e.quit_times > 0

\* A dispatcher that forgets to restart the confirmation count.
reset_quit_times_skipped(e) == e

\* The statement after the match.
reset_quit_times(e) == [e EXCEPT !.quit_times = KILO_QUIT_TIMES]

\* The arms of the match other than Ctrl-Q.
dispatch_key(e, key, fs) ==
    CASE key = CTRL_S -> editor_save(e, fs)
      [] key = CARRIAGE_RETURN_KEY -> editor_insert_newline(e)
      [] key \in {ARROW_LEFT_KEY, ARROW_RIGHT_KEY, ARROW_UP_KEY, ARROW_DOWN_KEY} ->
             editor_move_cursor(e, key)
      [] key \in {PAGE_DOWN_KEY, PAGE_UP_KEY} -> page_key(e, key)
      [] key = HOME_KEY -> [e EXCEPT !.cursor_x = 0]
      [] key = END_KEY -> end_key(e)
      [] key = BACKSPACE_KEY -> editor_delete_char(e)
      [] key = DELETE_KEY -> delete_key(e)
      [] key = CTRL_H -> editor_delete_char(e)
      [] key = ESCAPE_KEY -> e
      [] key = CTRL_L -> e
      [] OTHER -> IF is_literal_key(key) THEN editor_insert_char(e, key) ELSE e

\* The editor after the key, and whether the key ended in cleanup and exit(0).
editor_process_keypress(e, key, fs) ==
    IF key = CTRL_Q
    THEN IF quit_refused(e)
         THEN [e |-> [editor_set_status_message(e, "WARNING")
                         EXCEPT !.quit_times = @ - 1],
               exit |-> FALSE]
         ELSE [e |-> e, exit |-> TRUE]
    ELSE LET e1 == dispatch_key(e, key, fs)
         IN [e |-> IF e1.panicked THEN e1 ELSE reset_quit_times(e1),
             exit |-> FALSE]

(***************************************************************************)
(* The inputs the model draws.                                             *)
(***************************************************************************)
\* Text area of the terminal: (rows, columns) after the two bars are taken off.
ScreenSizes == {<<2, 20>>}
EditScreenSizes == {<<1, 20>>, <<2, 20>>}

\* What main is started with: no argument, or a filename that is missing,
\* unreadable, or holds one of a few texts.
StartFiles ==
    {[kind |-> k, text |-> <<>>] : k \in {"no_argument", "not_found", "read_error"}}
    \cup {[kind |-> "file", text |-> t] :
             t \in {<<TAB, CH_a>>, <<CH_a, CR, LF, CH_a>>}}

\* What the file system answers to a save.
FsOutcomes == {"ok", "open_error", "write_error"}

\* The bytes the terminal sends for one key, each followed by a read timeout.
CommandInputs ==
    {<<CTRL_Q>>, <<CTRL_S>>, <<CARRIAGE_RETURN_KEY>>,
     <<BACKSPACE_KEY>>, <<CTRL_H>>, <<CTRL_L>>,
     <<ESCAPE_KEY>>,
     <<ESCAPE_KEY, CH_BRACKET, CH_A>>, <<ESCAPE_KEY, CH_BRACKET, CH_B>>,
     <<ESCAPE_KEY, CH_BRACKET, CH_C>>, <<ESCAPE_KEY, CH_BRACKET, CH_D>>,
     <<ESCAPE_KEY, CH_BRACKET, CH_5, CH_TILDE>>,
     <<ESCAPE_KEY, CH_BRACKET, CH_6, CH_TILDE>>,
     <<ESCAPE_KEY, CH_BRACKET, CH_H>>, <<ESCAPE_KEY, CH_O, CH_F>>,
     <<ESCAPE_KEY, CH_BRACKET, CH_3, CH_TILDE>>}

\* The keys of the sessions of Spec: every command and one character.
KeyInputs == CommandInputs \cup {<<CH_a>>}

\* The keys of the editing sessions: every command but the quit, and two characters.
EditInputs == (CommandInputs \ {<<CTRL_Q>>}) \cup {<<CH_a>>, <<TAB>>}

\* The items of the streams the decoder is fed.
DecoderItems ==
    {EOF, ESCAPE_KEY, CH_BRACKET, CH_O, CH_TILDE, CH_x}
    \cup {CH_A, CH_B, CH_C, CH_D, CH_H, CH_F}
    \cup {CH_0, CH_1, CH_2, CH_3, CH_4, CH_5, CH_6, CH_7, CH_8, CH_9}

SeqsUpTo(S, n) == UNION {[1..k -> S] : k \in 0..n}

\* An escape byte followed by up to MaxInput items, and the streams of one item.
InputStreams ==
    {<<ESCAPE_KEY>> \o s : s \in SeqsUpTo(DecoderItems, MaxInput)}
    \cup {<<b>> : b \in DecoderItems}

(***************************************************************************)
(* The process                                                             *)
(***************************************************************************)
InitWith(sizes) ==
    /\ \E size \in sizes : editor = Editor_new(size[1], size[2])
    /\ status = "Start"
    /\ exit_code = 0 - 1
    /\ die_depth = 0
    /\ terminal = "original"
    /\ restores = 0
    /\ io_error = FALSE
    /\ stdin = <<>>
    /\ last_input = <<>>
    /\ last_key = 0 - 1
    /\ consecutive_q = 0
    /\ mutated = FALSE
    /\ call = NoCall

Init == InitWith(ScreenSizes)

\* enable_raw_mode
enable_raw_mode(e) == set_original_terminal(e, "Some")

\* main up to the loop: raw mode, the optional editor_open, the help message,
\* and the first refresh.  A read failure other than NotFound goes to die.
StartWith(file) ==
    /\ status = "Start"
    /\ LET e0 == enable_raw_mode(editor)
           e1 == IF file.kind = "no_argument" THEN e0
                 ELSE editor_open(e0, file.text)
           e2 == editor_refresh_screen(editor_set_status_message(e1, "HELP"))
       IN /\ terminal' = "raw"
          /\ IF file.kind = "read_error"
             THEN /\ editor' = e0
                  /\ status' = "Cleanup"
                  /\ die_depth' = 1
             ELSE /\ editor' = e2
                  /\ status' = "Running"
                  /\ die_depth' = die_depth
    /\ UNCHANGED <<exit_code, restores, io_error, stdin, last_input, last_key,
                   consecutive_q, mutated, call>>

Start == \E file \in StartFiles : StartWith(file)

save_succeeds(e, fs) == e.filename # "None" /\ fs = "ok"

RECURSIVE total_chars(_, _)
total_chars(rows, i) ==
    IF i > Len(rows) THEN 0 ELSE Len(rows[i].chars) + total_chars(rows, i + 1)

\* The sessions explored: at most MaxRows rows holding MaxChars characters in
\* all, and a dirty counter of at most MaxDirty.
WithinBounds(e) ==
    /\ e.dirty <= MaxDirty
    /\ Len(e.rows) <= MaxRows
    /\ total_chars(e.rows, 1) <= MaxChars

\* One turn of the loop of main: editor_process_keypress on the key decoded from
\* input, then editor_refresh_screen.
KeyPressWith(input, fs) ==
    /\ status = "Running"
    /\ has_key(input)
    /\ \E r \in {editor_read_key(input)} :
       \E pk \in {editor_process_keypress(editor, r.key, fs)} :
       \E new \in {IF pk.exit \/ pk.e.panicked THEN pk.e
                   ELSE editor_refresh_screen(pk.e)} :
          /\ WithinBounds(new)
          /\ editor' = new
          /\ status' = IF new.panicked THEN "Panicked"
                       ELSE IF pk.exit THEN "Cleanup" ELSE "Running"
          /\ exit_code' = IF new.panicked THEN 101 ELSE exit_code
          /\ stdin' = r.rest
          /\ consecutive_q' = IF r.key = CTRL_Q
                              THEN consecutive_q + 1 ELSE 0
          /\ mutated' = IF r.key = CTRL_S /\ save_succeeds(editor, fs)
                        THEN FALSE
                        ELSE mutated \/ new.rows # editor.rows
    /\ UNCHANGED <<die_depth, terminal, restores, io_error, last_input, last_key, call>>

KeyPressFrom(inputs, outcomes) ==
    \E input \in inputs :
        \E fs \in (IF input = <<CTRL_S>> THEN outcomes ELSE {"ok"}) :
            KeyPressWith(input, fs)

KeyPress == KeyPressFrom(KeyInputs, FsOutcomes)

\* A read in editor_read_key, or the write or the flush of the frame, fails
\* with an error other than UnexpectedEof: die.
IOFailure ==
    /\ status = "Running"
    /\ \E op \in {"read", "write", "flush"} :
         /\ status' = "Cleanup"
         /\ die_depth' = 1
         /\ io_error' = TRUE
    /\ UNCHANGED <<editor, exit_code, terminal, restores, stdin, last_input,
                   last_key, consecutive_q, mutated, call>>

\* A write or the flush of cleanup fails: write_to_stdout and flush_stdout call
\* die, which calls cleanup again, one frame deeper, until the stack is used up.
CleanupWriteFails ==
    /\ status = "Cleanup"
    /\ io_error' = TRUE
    /\ IF die_depth < MaxStack
       THEN /\ die_depth' = die_depth + 1
            /\ UNCHANGED <<status, exit_code>>
       ELSE /\ status' = "StackOverflow"
            /\ exit_code' = 134
            /\ UNCHANGED die_depth
    /\ UNCHANGED <<editor, terminal, restores, stdin, last_input, last_key,
                   consecutive_q, mutated, call>>

\* cleanup runs through: the screen is cleared, disable_terminal restores the
\* attributes, and the caller exits: die with 1, the Ctrl-Q arm with 0.
CleanupDone ==
    /\ status = "Cleanup"
    /\ IF editor.original_terminal # "None"
       THEN terminal' = "original" /\ restores' = restores + 1
       ELSE UNCHANGED <<terminal, restores>>
    /\ status' = "Exited"
    /\ exit_code' = IF die_depth > 0 THEN 1 ELSE 0
    /\ UNCHANGED <<editor, die_depth, io_error, stdin, last_input, last_key,
                   consecutive_q, mutated, call>>

\* tcsetattr fails in disable_terminal: the unwrap panics.
CleanupRestoreFails ==
    /\ status = "Cleanup"
    /\ editor.original_terminal # "None"
    /\ status' = "Panicked"
    /\ exit_code' = 101
    /\ UNCHANGED <<editor, die_depth, terminal, restores, io_error, stdin,
                   last_input, last_key, consecutive_q, mutated, call>>

Next ==
    \/ Start
    \/ KeyPress
    \/ IOFailure
    \/ CleanupWriteFails
    \/ CleanupDone
    \/ CleanupRestoreFails

Spec == Init /\ [][Next]_vars

(***************************************************************************)
(* The editing sessions: rows with tabs, two screen heights, a terminal    *)
(* and a file system that do not fail, and no quit.                        *)
(***************************************************************************)
InitEdit == InitWith(EditScreenSizes)

EditKeyPress == KeyPressFrom(EditInputs, {"ok"})

NextEdit ==
    \/ Start
    \/ EditKeyPress

SpecEdit == InitEdit /\ [][NextEdit]_vars

(***************************************************************************)
(* The key decoder on its own: the stream is drawn at the start and        *)
(* editor_read_key reads one key after the other from it.                  *)
(***************************************************************************)
InitKeys ==
    /\ editor = Editor_new(2, 4)
    /\ status = "Running"
    /\ exit_code = 0 - 1
    /\ die_depth = 0
    /\ terminal = "raw"
    /\ restores = 0
    /\ io_error = FALSE
    /\ stdin \in InputStreams
    /\ last_input = <<>>
    /\ last_key = 0 - 1
    /\ consecutive_q = 0
    /\ mutated = FALSE
    /\ call = NoCall

ReadKey ==
    /\ has_key(stdin)
    /\ LET r == editor_read_key(stdin)
       IN /\ last_input' = stdin
          /\ last_key' = r.key
          /\ stdin' = r.rest
    /\ UNCHANGED <<editor, status, exit_code, die_depth, terminal, restores,
                   io_error, consecutive_q, mutated, call>>

NextKeys == ReadKey

SpecKeys == InitKeys /\ [][NextKeys]_vars

(***************************************************************************)
(* The file format: documents typed with a, Ctrl-J (line feed), Enter and  *)
(* Backspace, on a terminal and a file system that do not fail.            *)
(***************************************************************************)
FileInputs == {<<CH_a>>, <<LF>>, <<CARRIAGE_RETURN_KEY>>, <<BACKSPACE_KEY>>, <<CTRL_S>>}

FileKeyPress == KeyPressFrom(FileInputs, {"ok"})

NextFile ==
    \/ Start
    \/ FileKeyPress

SpecFile == Init /\ [][NextFile]_vars

(***************************************************************************)
(* One operation applied on its own: the editor it is applied to and its   *)
(* arguments are drawn at the start, the action is the operation.          *)
(***************************************************************************)
BackspaceInputs == {<<BACKSPACE_KEY>>, <<CTRL_H>>}

\* The documents: at most MaxRows rows of a and tab, MaxChars characters in all.
Texts == SeqsUpTo({CH_a, TAB}, MaxChars)

RECURSIVE total_len(_, _)
total_len(d, i) == IF i > Len(d) THEN 0 ELSE Len(d[i]) + total_len(d, i + 1)

Documents == {d \in SeqsUpTo(Texts, MaxRows) : total_len(d, 1) <= MaxChars}

\* The editor of a running session that holds document d.
Holding(d, size) ==
    [enable_raw_mode(Editor_new(size[1], size[2])) EXCEPT
        !.rows = [i \in 1..Len(d) |-> EditorRow_new(d[i])],
        !.filename = "Some",
        !.status_message = "HELP"]

\* The sessions a key is pressed in: the cursor on a column of the chars of a
\* row or past the last row, the document as loaded or modified, the offsets as
\* the refresh leaves them.
CursorsIn(d) ==
    {q \in (0..MaxChars) \X (0..MaxRows) :
        /\ q[2] <= Len(d)
        /\ q[1] <= (IF q[2] < Len(d) THEN Len(d[q[2] + 1]) ELSE 0)}

SessionEditor(d, size, p, dt) ==
    editor_refresh_screen([Holding(d, size) EXCEPT
                              !.cursor_x = p[1], !.cursor_y = p[2], !.dirty = dt])

\* The editors editor_scroll is called on: any cursor and any offsets.
ScrollScreenSizes == {<<1, 1>>, <<2, 20>>}
ColumnOffsets == {0, 1, KILO_TAB_STOP + 1}

ScrollEditor(d, size, p, o) ==
    [Holding(d, size) EXCEPT !.cursor_x = p[1], !.cursor_y = p[2],
                             !.row_offset = o[1], !.column_offset = o[2]]

Call(op, args, e) == [op |-> op, args |-> args, before |-> e]

\* The calls: a Backspace in a session, editor_scroll, and the row and the
\* character operations at every offset, in range or not.
KeyCalls ==
    \E d \in Documents : \E size \in EditScreenSizes : \E dt \in {0, 1} :
    \E p \in CursorsIn(d) : \E input \in BackspaceInputs :
        call = Call("editor_process_keypress", input, SessionEditor(d, size, p, dt))

ScrollCalls ==
    \E d \in Documents : \E size \in ScrollScreenSizes :
    \E p \in (0..MaxChars) \X (0..Len(d)) : \E o \in (0..MaxRows) \X ColumnOffsets :
        call = Call("editor_scroll", <<>>, ScrollEditor(d, size, p, o))

\* A carriage return in a session, on every document of the bound.
EnterCalls ==
    \E d \in Documents : \E size \in EditScreenSizes : \E dt \in {0, 1} :
    \E p \in CursorsIn(d) :
        call = Call("editor_insert_newline", <<CARRIAGE_RETURN_KEY>>,
                    SessionEditor(d, size, p, dt))

RowCalls ==
    \E d \in Documents : \E size \in ScreenSizes : \E at \in 0..(MaxRows + 1) :
    \E op \in {"editor_insert_row", "editor_delete_row"} :
        call = Call(op, <<at>>, Holding(d, size))

CharCalls ==
    \E d \in Documents : \E size \in ScreenSizes :
    \E y \in 0..(Len(d) - 1) : \E at \in 0..(MaxChars + 1) :
    \E op \in {"insert_char", "delete_char"} :
        call = Call(op, <<y, at>>, Holding(d, size))

\* insert_char(at, c) followed by delete_char(at), at every offset of a row and
\* for both characters.
InverseCalls ==
    \E d \in Documents : \E size \in ScreenSizes :
    \E y \in 0..(Len(d) - 1) : \E c \in {CH_a, TAB} :
    \E at \in 0..Len(d[y + 1]) :
        call = Call("insert_char_delete_char", <<y, at, c>>, Holding(d, size))

InitCalls ==
    /\ (KeyCalls \/ EnterCalls \/ ScrollCalls \/ RowCalls \/ CharCalls
        \/ InverseCalls)
    /\ editor = call.before
    /\ status = IF call.op = "editor_process_keypress" THEN "Running" ELSE "Call"
    /\ stdin = IF call.op = "editor_process_keypress" THEN call.args ELSE <<>>
    /\ exit_code = 0 - 1
    /\ die_depth = 0
    /\ terminal = "raw"
    /\ restores = 0
    /\ io_error = FALSE
    /\ last_input = <<>>
    /\ last_key = 0 - 1
    /\ consecutive_q = 0
    /\ mutated = FALSE

\* The call returns with the editor as new, or panics.
Return(new) ==
    /\ editor' = new
    /\ status' = IF new.panicked THEN "Panicked" ELSE "Returned"
    /\ exit_code' = IF new.panicked THEN 101 ELSE exit_code
    /\ UNCHANGED <<die_depth, terminal, restores, io_error, stdin, last_input,
                   last_key, consecutive_q, mutated, call>>

\* One turn of the loop of main on the key waiting on standard input.
KeyCall ==
    /\ call.op = "editor_process_keypress"
    /\ KeyPressWith(stdin, "ok")

\* One turn of the loop of main on a carriage return: the CARRIAGE_RETURN_KEY
\* arm (editor_insert_newline), the reset of quit_times, and the refresh.
EnterCall ==
    /\ status = "Call"
    /\ call.op = "editor_insert_newline"
    /\ \E pk \in {editor_process_keypress(editor, call.args[1], "ok")} :
          Return(IF pk.e.panicked THEN pk.e ELSE editor_refresh_screen(pk.e))

ScrollCall ==
    /\ status = "Call"
    /\ call.op = "editor_scroll"
    /\ Return(editor_scroll(editor))

InsertRowCall ==
    /\ status = "Call"
    /\ call.op = "editor_insert_row"
    /\ Return(editor_insert_row(editor, call.args[1], <<CH_a>>))

DeleteRowCall ==
    /\ status = "Call"
    /\ call.op = "editor_delete_row"
    /\ Return(editor_delete_row(editor, call.args[1]))

\* EditorRow::insert_char(at, 'a') on row y of the editor.
RowInsertCharCall ==
    /\ status = "Call"
    /\ call.op = "insert_char"
    /\ LET y == call.args[1]
           at == call.args[2]
       IN Return(IF insert_char_panics(editor.rows[y + 1], at) THEN Panic(editor)
                 ELSE [editor EXCEPT !.rows[y + 1] =
                                         EditorRow_insert_char(@, at, CH_a)])

\* EditorRow::delete_char(at) on row y of the editor.
RowDeleteCharCall ==
    /\ status = "Call"
    /\ call.op = "delete_char"
    /\ LET y == call.args[1]
           at == call.args[2]
       IN Return(IF delete_char_panics(editor.rows[y + 1], at) THEN Panic(editor)
                 ELSE [editor EXCEPT !.rows[y + 1] = EditorRow_delete_char(@, at)])

\* insert_char(at, c) on a row: whether it returns, and the row it leaves.
row_insert_char(row, at, c) ==
    IF insert_char_panics(row, at) THEN [ok |-> FALSE, row |-> row]
    ELSE [ok |-> TRUE, row |-> EditorRow_insert_char(row, at, c)]

\* delete_char(at) on a row: whether it returns, and the row it leaves.
row_delete_char(row, at) ==
    IF delete_char_panics(row, at) THEN [ok |-> FALSE, row |-> row]
    ELSE [ok |-> TRUE, row |-> EditorRow_delete_char(row, at)]

\* EditorRow::insert_char(at, c) and then EditorRow::delete_char(at) on row y.
InsertDeleteCall ==
    /\ status = "Call"
    /\ call.op = "insert_char_delete_char"
    /\ LET y == call.args[1]
           at == call.args[2]
           inserted == row_insert_char(editor.rows[y + 1], at, call.args[3])
           deleted == row_delete_char(inserted.row, at)
       IN Return(IF ~inserted.ok \/ ~deleted.ok THEN Panic(editor)
                 ELSE [editor EXCEPT !.rows[y + 1] = deleted.row])

NextCalls ==
    \/ KeyCall
    \/ EnterCall
    \/ ScrollCall
    \/ InsertRowCall
    \/ DeleteRowCall
    \/ RowInsertCharCall
    \/ RowDeleteCharCall
    \/ InsertDeleteCall

SpecCalls == InitCalls /\ [][NextCalls]_vars

(***************************************************************************)
(* Claims                                                                  *)
(***************************************************************************)
Ended == status \in {"Exited", "Panicked", "StackOverflow"}

\* C1 (as stated): on a dirty document, with the quit counter starting at 3, the
\* first and the second consecutive Ctrl-Q leave the session running and the
\* third ends it.
C1_ThirdPressQuits ==
    (editor.dirty # 0 /\ die_depth = 0) =>
        /\ consecutive_q \in {1, 2} => status = "Running"
        /\ consecutive_q = 3 => status # "Running"

\* C1 (amended): on a dirty document the first, second and third consecutive
\* Ctrl-Q leave the session running, the counter going 2, 1, 0, and the fourth
\* ends it.
C1_FourthPressQuits ==
    (editor.dirty # 0 /\ die_depth = 0) =>
        /\ consecutive_q \in 1..3 =>
               /\ status = "Running"
               /\ editor.quit_times = KILO_QUIT_TIMES - consecutive_q
        /\ consecutive_q >= 4 => status # "Running"

C1_Witness ==
    /\ editor.dirty # 0
    /\ die_depth = 0
    /\ consecutive_q = 4
    /\ status = "Cleanup"

\* C2: a Ctrl-S that cannot save (no filename, open fails, write fails) leaves
\* the session running, the rows, the cursor and dirty unchanged, and sets an
\* error status message.
C2_FailedSaveKeepsSession ==
    [][\A fs \in FsOutcomes :
          (KeyPressWith(<<CTRL_S>>, fs) /\ ~save_succeeds(editor, fs)) =>
              /\ status' = "Running"
              /\ editor'.rows = editor.rows
              /\ editor'.cursor_x = editor.cursor_x
              /\ editor'.cursor_y = editor.cursor_y
              /\ editor'.dirty = editor.dirty
              /\ editor'.status_message \in
                     {"No file open to save", "Error opening file", "Error saving file"}
      ]_vars

\* C3: once a key press has changed the rows since the last successful load or
\* save, dirty is positive; and dirty never decreases, except to 0 in a
\* successful load or save.
C3_DirtyTracksChanges ==
    /\ [](status = "Running" /\ mutated => editor.dirty > 0)
    /\ [][\/ editor'.dirty >= editor.dirty
          \/ /\ editor'.dirty = 0
             /\ \/ Start
                \/ KeyPressWith(<<CTRL_S>>, "ok") /\ save_succeeds(editor, "ok")
       ]_vars

C3_Witness ==
    /\ status = "Running"
    /\ mutated
    /\ editor.dirty = MaxDirty
    /\ Len(editor.rows) = 1

\* C4: after every key press other than a refused Ctrl-Q the quit counter is at
\* its initial value, so only consecutive Ctrl-Q presses count.
C4_QuitCounterRestarts ==
    (status = "Running" /\ consecutive_q = 0) => editor.quit_times = KILO_QUIT_TIMES

\* A Ctrl-Q was refused (its warning is still shown) and another key followed.
C4_Witness ==
    /\ status = "Running"
    /\ consecutive_q = 0
    /\ editor.status_message = "WARNING"
    /\ editor.quit_times = KILO_QUIT_TIMES

RowChars(e) == [i \in 1..Len(e.rows) |-> e.rows[i].chars]

\* C5: every document of at least one row that the editor holds is read back
\* unchanged from its serialization.
C5_RoundTrip ==
    (status = "Running" /\ Len(editor.rows) >= 1) =>
        RowChars(editor_open(Editor_new(editor.screen_num_rows,
                                        editor.screen_num_columns),
                             editor_rows_to_string(editor)))
            = RowChars(editor)

\* The stream the last key was decoded from, without the timeouts skipped by
\* the first read, and its item i (a timeout past its end).
LastStream == skip_timeouts(last_input)

Item(s, i) == IF i <= Len(s) THEN s[i] ELSE EOF

Decoded == last_key # 0 - 1

\* The key the table of the specification gives for a stream that starts ESC [.
CsiTableKey(s) ==
    LET b == Item(s, 3)
    IN CASE b = CH_A -> ARROW_UP_KEY
         [] b = CH_B -> ARROW_DOWN_KEY
         [] b = CH_C -> ARROW_RIGHT_KEY
         [] b = CH_D -> ARROW_LEFT_KEY
         [] b = CH_H -> HOME_KEY
         [] b = CH_F -> END_KEY
         [] b \in {CH_1, CH_7} /\ Item(s, 4) = CH_TILDE -> HOME_KEY
         [] b = CH_3 /\ Item(s, 4) = CH_TILDE -> DELETE_KEY
         [] b \in {CH_4, CH_8} /\ Item(s, 4) = CH_TILDE -> END_KEY
         [] b = CH_5 /\ Item(s, 4) = CH_TILDE -> PAGE_UP_KEY
         [] b = CH_6 /\ Item(s, 4) = CH_TILDE -> PAGE_DOWN_KEY
         [] OTHER -> ESCAPE_KEY

\* C6: the key decoded from ESC [ ... is the key of the table; every other
\* digit, trailing byte or letter, an unrecognized byte after ESC, and a timeout
\* at any lookahead position give Escape.
C6_CsiTable ==
    (Decoded /\ LastStream[1] = ESCAPE_KEY) =>
        /\ Item(LastStream, 2) = CH_BRACKET => last_key = CsiTableKey(LastStream)
        /\ Item(LastStream, 2) \notin {CH_BRACKET, CH_O} => last_key = ESCAPE_KEY
        /\ EOF \in {Item(LastStream, 2), Item(LastStream, 3)} => last_key = ESCAPE_KEY
        /\ (/\ Item(LastStream, 2) = CH_BRACKET
            /\ Item(LastStream, 3) \in {CH_1, CH_2, CH_3, CH_4, CH_5, CH_6, CH_7, CH_8, CH_9}
            /\ Item(LastStream, 4) = EOF) => last_key = ESCAPE_KEY

C6_Witness ==
    /\ last_input = <<ESCAPE_KEY, CH_BRACKET, CH_3, CH_TILDE>>
    /\ last_key = DELETE_KEY
    /\ stdin = <<>>

\* C7 (as stated): ESC O b decodes to the key ESC [ b decodes to, for every
\* continuation b.
C7_Ss3SameAsCsi ==
    (Decoded /\ LastStream[1] = ESCAPE_KEY /\ Item(LastStream, 2) = CH_O) =>
        last_key = editor_read_key(<<ESCAPE_KEY, CH_BRACKET>>
                                    \o SubSeq(LastStream, 3, Len(LastStream))).key

\* C7 (amended): after ESC O only H and F are recognized, as Home and End, the
\* keys of ESC [ H and ESC [ F; every other next byte gives Escape.
C7_Ss3HomeEndOnly ==
    (Decoded /\ LastStream[1] = ESCAPE_KEY /\ Item(LastStream, 2) = CH_O) =>
        last_key = (CASE Item(LastStream, 3) = CH_H -> HOME_KEY
                      [] Item(LastStream, 3) = CH_F -> END_KEY
                      [] OTHER -> ESCAPE_KEY)

C7_Witness ==
    /\ last_input = <<ESCAPE_KEY, CH_O, CH_H>>
    /\ last_key = HOME_KEY

\* C8: ESC followed by a byte that is neither [ nor O decodes to Escape and
\* takes exactly those two bytes off the stream: the bytes after them are still
\* there for the next read.
C8_UnrecognizedKeepsNextByte ==
    (/\ Decoded
     /\ LastStream[1] = ESCAPE_KEY
     /\ Item(LastStream, 2) \notin {CH_BRACKET, CH_O, EOF}) =>
        /\ last_key = ESCAPE_KEY
        /\ skip_timeouts(stdin) = skip_timeouts(SubSeq(LastStream, 3, Len(LastStream)))

\* C9: when the process has ended after raw mode was enabled, the original
\* terminal attributes have been restored exactly once.
C9_RestoredOnEveryExit ==
    (Ended /\ editor.original_terminal # "None") =>
        (restores = 1 /\ terminal = "original")

\* C10: once a terminal read, write or flush has failed, the process ends only
\* by exiting with a non-zero status, the terminal restored.
C10_FailureExitsRestored ==
    (io_error /\ status \in {"Exited", "StackOverflow"}) =>
        /\ status = "Exited"
        /\ exit_code > 0
        /\ restores = 1
        /\ terminal = "original"

\* The cursor of e, the length of the chars of its row y, and its position on
\* the rows: on a row at a column of its chars, or past the last row.
Cursor(e) == <<e.cursor_x, e.cursor_y>>

CharsLen(e, y) == Len(e.rows[y + 1].chars)

OnRow(e) == e.cursor_y < Len(e.rows) /\ e.cursor_x <= CharsLen(e, e.cursor_y)

ArrowLeftInput == <<ESCAPE_KEY, CH_BRACKET, CH_D>>
ArrowRightInput == <<ESCAPE_KEY, CH_BRACKET, CH_C>>

\* C11: on every document, rows with tabs included, ArrowLeft at (0, y), y > 0,
\* moves the cursor to the end of the chars of row y-1; ArrowRight at the end of
\* the chars of row y moves it to (0, y+1); at every other column of the chars
\* of a row the arrow moves cursor_x by exactly one.
C11_ArrowsWrapAtCharsEnd ==
    [][/\ (KeyPressWith(ArrowLeftInput, "ok") /\ editor.cursor_x = 0
             /\ editor.cursor_y > 0) =>
               /\ status' = "Running"
               /\ Cursor(editor') = <<CharsLen(editor, editor.cursor_y - 1),
                                      editor.cursor_y - 1>>
       /\ (KeyPressWith(ArrowLeftInput, "ok") /\ OnRow(editor)
             /\ editor.cursor_x > 0) =>
               /\ status' = "Running"
               /\ Cursor(editor') = <<editor.cursor_x - 1, editor.cursor_y>>
       /\ (KeyPressWith(ArrowRightInput, "ok") /\ OnRow(editor)) =>
               /\ status' = "Running"
               /\ Cursor(editor') =
                      IF editor.cursor_x = CharsLen(editor, editor.cursor_y)
                      THEN <<0, editor.cursor_y + 1>>
                      ELSE <<editor.cursor_x + 1, editor.cursor_y>>
      ]_vars

\* The key of the call has been processed and the screen refreshed.
KeyReturned == call.op = "editor_process_keypress" /\ stdin = <<>>

\* The text s without its character at index i (from 0).
WithoutChar(s, i) == SubSeq(s, 1, i) \o SubSeq(s, i + 2, Len(s))

\* C12: on every row y < row_count, whatever the screen height, and at every
\* column x with 0 < x <= length of row y, Backspace (or Ctrl-H) removes exactly
\* the character at index x-1 of row y, leaves the other rows as they were, and
\* moves the cursor to (x-1, y).
C12_BackspaceRemovesCharBefore ==
    (KeyReturned /\ OnRow(call.before) /\ call.before.cursor_x > 0) =>
        /\ status = "Running"
        /\ RowChars(editor) =
               [RowChars(call.before) EXCEPT ![call.before.cursor_y + 1] =
                    WithoutChar(@, call.before.cursor_x - 1)]
        /\ Cursor(editor) = <<call.before.cursor_x - 1, call.before.cursor_y>>

\* The rows d with row y (from 0) appended to row y-1 and taken out.
Joined(d, y) ==
    [i \in 1..(Len(d) - 1) |->
        IF i < y THEN d[i] ELSE IF i = y THEN d[y] \o d[y + 1] ELSE d[i + 1]]

\* C13: Backspace at (0, y), 0 < y < row_count, replaces row y-1 by old row y-1
\* followed by old row y, removes row y, keeps the other rows, and moves the
\* cursor to (old length of row y-1, y-1).
C13_BackspaceJoinsRows ==
    (/\ KeyReturned
     /\ call.args = <<BACKSPACE_KEY>>
     /\ call.before.cursor_x = 0
     /\ call.before.cursor_y > 0
     /\ call.before.cursor_y < Len(call.before.rows)) =>
        /\ status = "Running"
        /\ RowChars(editor) = Joined(RowChars(call.before), call.before.cursor_y)
        /\ Cursor(editor) = <<CharsLen(call.before, call.before.cursor_y - 1),
                              call.before.cursor_y - 1>>

\* C14: Backspace at (0, 0) changes nothing, on every document: the rows, the
\* cursor and dirty are as before, and the session goes on.
C14_BackspaceAtOriginIsNoOp ==
    (/\ KeyReturned
     /\ call.args = <<BACKSPACE_KEY>>
     /\ Cursor(call.before) = <<0, 0>>) =>
        /\ status = "Running"
        /\ editor.rows = call.before.rows
        /\ Cursor(editor) = <<0, 0>>
        /\ editor.dirty = call.before.dirty

\* Backspace was pressed at the origin of a modified document of MaxRows rows,
\* the first of them not empty.
C14_Witness ==
    /\ KeyReturned
    /\ call.args = <<BACKSPACE_KEY>>
    /\ Cursor(call.before) = <<0, 0>>
    /\ Len(call.before.rows) = MaxRows
    /\ CharsLen(call.before, 0) > 0
    /\ call.before.dirty = 1
    /\ status = "Running"
    /\ editor.rows = call.before.rows

NotFoundFile == [kind |-> "not_found", text |-> <<>>]

\* C15: started with the name of a file that does not exist, the session runs
\* with zero rows, as it does when started without a filename, and dirty is 0.
C15_MissingFileGivesNoRows ==
    [][StartWith(NotFoundFile) =>
           /\ status' = "Running"
           /\ Len(editor'.rows) = 0
           /\ editor'.dirty = 0
      ]_vars

\* The process died in editor_save, of the missing filename.
SavePanic == editor.panicked /\ editor.status_message = "No file open to save"

\* C16: after any sequence of key presses on any loaded document, rows with
\* tabs included, cursor_x is at most the length of the chars of row cursor_y,
\* and 0 past the last row; so no key press panics on an offset out of range.
C16_CursorXWithinChars ==
    (status \in {"Running", "Panicked"} /\ ~SavePanic) =>
        /\ ~editor.panicked
        /\ editor.cursor_x >= 0
        /\ editor.cursor_y < Len(editor.rows) =>
               editor.cursor_x <= CharsLen(editor, editor.cursor_y)
        /\ editor.cursor_y >= Len(editor.rows) => editor.cursor_x = 0

\* C17: after any sequence of key presses, each followed by the refresh,
\* 0 <= cursor_y <= row_count.
C17_CursorYWithinRows ==
    status \in {"Running", "Panicked"} =>
        (editor.cursor_y >= 0 /\ editor.cursor_y <= Len(editor.rows))

\* The cursor is past the last row of a modified document of MaxRows rows that
\* the screen of one row has scrolled.
C17_Witness ==
    /\ status = "Running"
    /\ editor.cursor_y = Len(editor.rows)
    /\ Len(editor.rows) = MaxRows
    /\ editor.row_offset = MaxRows
    /\ editor.dirty = MaxDirty

\* The tab expansion of a text: each tab replaced by spaces up to the next
\* multiple of the tab stop, every other character copied.
RECURSIVE TabExpansion(_)
TabExpansion(text) ==
    IF text = <<>> THEN <<>>
    ELSE LET before == TabExpansion(SubSeq(text, 1, Len(text) - 1))
             next_stop == (Len(before) \div KILO_TAB_STOP + 1) * KILO_TAB_STOP
         IN IF text[Len(text)] = TAB
            THEN before \o [k \in 1..(next_stop - Len(before)) |-> SPACE]
            ELSE Append(before, text[Len(text)])

\* C19: in every reachable state the render of every row is the tab expansion
\* of its chars, and so at least as long: no key press leaves a stale render.
C19_RenderIsTabExpansion ==
    \A i \in 1..Len(editor.rows) :
        /\ editor.rows[i].render = TabExpansion(editor.rows[i].chars)
        /\ Len(editor.rows[i].render) >= Len(editor.rows[i].chars)

\* Key presses have left a row with a character before a tab and a character
\* after it.
C19_Witness ==
    /\ status = "Running"
    /\ editor.dirty = MaxDirty
    /\ \E i \in 1..Len(editor.rows) :
           /\ editor.rows[i].chars = <<CH_a, TAB, CH_a>>
           /\ Len(editor.rows[i].render) = KILO_TAB_STOP + 1

\* The tab-expanded column of the cursor: the length of the expansion of the
\* characters before cursor_x on the row of the cursor, 0 past the last row.
RenderX(e) ==
    IF e.cursor_y < Len(e.rows)
    THEN Len(TabExpansion(SubSeq(e.rows[e.cursor_y + 1].chars, 1,
                                 Min(e.cursor_x, CharsLen(e, e.cursor_y)))))
    ELSE 0

\* C18: whatever the offsets and the cursor before the call, after editor_scroll
\* row_offset <= cursor_y < row_offset + screen rows and
\* column_offset <= render_x < column_offset + screen columns, render_x being
\* the tab-expanded column of cursor_x.
C18_ScrollKeepsCursorInView ==
    (call.op = "editor_scroll" /\ status # "Call") =>
        /\ status = "Returned"
        /\ editor.render_cursor_x = RenderX(editor)
        /\ editor.row_offset <= editor.cursor_y
        /\ editor.cursor_y < editor.row_offset + editor.screen_num_rows
        /\ editor.column_offset <= RenderX(editor)
        /\ RenderX(editor) < editor.column_offset + editor.screen_num_columns

\* editor_scroll has moved both offsets forward to a cursor after a tab, and
\* back from offsets beyond the cursor.
C18_Witness ==
    /\ call.op = "editor_scroll"
    /\ status = "Returned"
    /\ \/ /\ call.before.row_offset = 0
          /\ call.before.column_offset = 0
          /\ editor.row_offset = 1
          /\ editor.column_offset = KILO_TAB_STOP
       \/ /\ call.before.row_offset > call.before.cursor_y
          /\ call.before.column_offset > RenderX(call.before)
          /\ editor.row_offset = editor.cursor_y
          /\ editor.column_offset = RenderX(editor)
          /\ RenderX(editor) = KILO_TAB_STOP

\* The offset of the call is outside the range its operation accepts.
OutOfRange ==
    CASE call.op = "editor_insert_row" -> call.args[1] > Len(call.before.rows)
      [] call.op = "editor_delete_row" -> call.args[1] >= Len(call.before.rows)
      [] call.op = "insert_char" ->
             call.args[2] > CharsLen(call.before, call.args[1])
      [] call.op = "delete_char" ->
             call.args[2] >= CharsLen(call.before, call.args[1])
      [] OTHER -> FALSE

\* C20: editor_insert_row with at > row_count, editor_delete_row with
\* at >= row_count, EditorRow::insert_char with at > length and
\* EditorRow::delete_char with at >= length return without failure and leave
\* the rows and dirty as they were.
C20_OutOfRangeIsNoOp ==
    (status \in {"Returned", "Panicked"} /\ OutOfRange) =>
        /\ status = "Returned"
        /\ editor.rows = call.before.rows
        /\ editor.dirty = call.before.dirty

\* The rows d after a carriage return at column x of row y (from 0): an empty
\* row put before row y when x = 0, row y cut in two at x otherwise.
AfterEnter(d, x, y) ==
    [i \in 1..(Len(d) + 1) |->
        IF i <= y THEN d[i]
        ELSE IF x = 0
             THEN (IF i = y + 1 THEN <<>> ELSE d[i - 1])
             ELSE (IF i = y + 1 THEN SubSeq(d[y + 1], 1, x)
                   ELSE IF i = y + 2 THEN SubSeq(d[y + 1], x + 1, Len(d[y + 1]))
                   ELSE d[i - 1])]

MinimalJump(off, pos, size) ==
    IF off <= pos /\ pos < off + size THEN off
    ELSE IF pos < off THEN pos
    ELSE pos - size + 1

\* C23: editor_scroll leaves row_offset as it was when the cursor row is in
\* the window, and otherwise sets it to cursor_y (cursor above) or to
\* cursor_y - screen rows + 1 (cursor below); the same for column_offset with
\* render_x and the screen columns; the rows, the cursor and dirty are never
\* changed.
C23_ScrollIsMinimalJump ==
    (call.op = "editor_scroll" /\ status # "Call") =>
        /\ status = "Returned"
        /\ editor.row_offset =
               MinimalJump(call.before.row_offset, call.before.cursor_y,
                           call.before.screen_num_rows)
        /\ editor.column_offset =
               MinimalJump(call.before.column_offset, RenderX(call.before),
                           call.before.screen_num_columns)
        /\ editor.rows = call.before.rows
        /\ Cursor(editor) = Cursor(call.before)
        /\ editor.dirty = call.before.dirty

\* The cursor was below a window of more than one line: the window has moved
\* down by one row only, and the column offset, beyond the cursor, came back
\* to it.
C23_Witness ==
    /\ call.op = "editor_scroll"
    /\ status = "Returned"
    /\ call.before.screen_num_rows = 2
    /\ call.before.row_offset = 0
    /\ call.before.cursor_y = 2
    /\ editor.row_offset = 1
    /\ call.before.column_offset > 0
    /\ editor.column_offset = 0

====
